---- MODULE Spec2Model ----
(***************************************************************************)
(* A model of macanalyzer.py: the OUI registry parser, the MAC address     *)
(* normaliser / validator, the flag decoder, the lookup, the batch loop of *)
(* analyze_file and the menu loop of main.                                 *)
(*                                                                         *)
(* Python strings are modelled as sequences of one-character strings, so   *)
(* that the regular expressions, str.lower, str.strip, str.splitlines and  *)
(* slicing are computed character by character.  Python dicts are          *)
(* functions whose DOMAIN is the set of keys.  The ANSI colour escapes     *)
(* that colorama puts into the console texts are elided.                   *)
(***************************************************************************)
EXTENDS Integers, Sequences, FiniteSets, TLC

VARIABLES
    pc,             \* position of the caller / of main
    oui_data,       \* registry text handed to parse_oui_database (or None)
    oui_database,   \* the prefix table (dict str -> str)
    mac_address,    \* the last raw address handed to analyze_mac
    result,         \* the last dict returned by analyze_mac
    flags,          \* the last flags dict handed to explain_flags
    explanations,   \* the last list returned by explain_flags
    macs,           \* analyze_file: the lines read from the file
    idx,            \* analyze_file: number of lines of macs already processed
    results,        \* analyze_file: results
    success_count,  \* analyze_file: success_count
    error_count     \* analyze_file: error_count

vars == <<pc, oui_data, oui_database, mac_address, result, flags, explanations,
          macs, idx, results, success_count, error_count>>

-----------------------------------------------------------------------------
(* Python values *)

\* Python's None, where a str is expected (no one-character string equals it).
None == <<"None">>

\* Python truthiness of a str-or-None value: None and "" are falsy.
Truthy(v) == v # None /\ v # <<>>

\* The empty dict {}.
EmptyDict == [k \in {} |-> <<>>]

\* d[k] = v
DictSet(d, k, v) == [x \in (DOMAIN d) \cup {k} |-> IF x = k THEN v ELSE d[x]]

\* d.get(k, default)
DictGet(d, k, default) == IF k \in DOMAIN d THEN d[k] ELSE default

-----------------------------------------------------------------------------
(* Characters *)

Digits == {"0", "1", "2", "3", "4", "5", "6", "7", "8", "9"}

\* the class [0-9a-f]
LowerHexClass == Digits \cup {"a", "b", "c", "d", "e", "f"}

\* the class [0-9A-F]
UpperHexClass == Digits \cup {"A", "B", "C", "D", "E", "F"}

\* the class [.:-]
SeparatorClass == {".", ":", "-"}

\* the class \s, and what str.strip() removes
WhitespaceClass == {" ", "\t", "\n", "\r", "\f"}

UpperLetters == <<"A", "B", "C", "D", "E", "F", "G", "H", "I", "J", "K", "L", "M",
                  "N", "O", "P", "Q", "R", "S", "T", "U", "V", "W", "X", "Y", "Z">>

LowerLetters == <<"a", "b", "c", "d", "e", "f", "g", "h", "i", "j", "k", "l", "m",
                  "n", "o", "p", "q", "r", "s", "t", "u", "v", "w", "x", "y", "z">>

\* str.lower() on one character
lower_char(c) ==
    IF \E i \in DOMAIN UpperLetters : UpperLetters[i] = c
    THEN LowerLetters[CHOOSE i \in DOMAIN UpperLetters : UpperLetters[i] = c]
    ELSE c

\* str.lower()
str_lower(s) == [i \in 1..Len(s) |-> lower_char(s[i])]

HexDigitsLower == <<"0", "1", "2", "3", "4", "5", "6", "7", "8", "9",
                    "a", "b", "c", "d", "e", "f">>

\* value of one hex digit, as int(c, 16) reads it
hex_digit(c) == (CHOOSE i \in DOMAIN HexDigitsLower : HexDigitsLower[i] = lower_char(c)) - 1

\* int(s, 16) for a string of hex digits
RECURSIVE int16(_)
int16(s) ==
    IF s = <<>> THEN 0
    ELSE 16 * int16(SubSeq(s, 1, Len(s) - 1)) + hex_digit(s[Len(s)])

\* a & b on non-negative integers
RECURSIVE BitAnd(_, _)
BitAnd(a, b) ==
    IF a = 0 \/ b = 0 THEN 0
    ELSE 2 * BitAnd(a \div 2, b \div 2) + (IF a % 2 = 1 /\ b % 2 = 1 THEN 1 ELSE 0)

\* s[:n]
Take(s, n) == SubSeq(s, 1, IF n < Len(s) THEN n ELSE Len(s))

\* s[n:]  (n counted from 0, as in Python)
Drop(s, n) == SubSeq(s, n + 1, Len(s))

\* str.strip()
RECURSIVE lstrip(_)
lstrip(s) == IF s # <<>> /\ s[1] \in WhitespaceClass THEN lstrip(Tail(s)) ELSE s

RECURSIVE rstrip(_)
rstrip(s) ==
    IF s # <<>> /\ s[Len(s)] \in WhitespaceClass
    THEN rstrip(SubSeq(s, 1, Len(s) - 1)) ELSE s

strip(s) == rstrip(lstrip(s))

-----------------------------------------------------------------------------
(* parse_mac_address *)

\* a variant whose class is [:-]: the dot of the Cisco notation stays
re_sub_separators_no_dot(mac) == SelectSeq(mac, LAMBDA c : c \notin {":", "-"})

\* re.sub(r'[.:-]', '', mac)
re_sub_separators(mac) == SelectSeq(mac, LAMBDA c : c \notin SeparatorClass)

MAC_HEX_LEN == 12

\* re.match(r'^[0-9a-f]{12}$', mac): '$' matches at the end of the string and
\* also just before a newline that ends the string.
re_match_mac(mac) ==
    /\ Len(mac) >= MAC_HEX_LEN
    /\ \A i \in 1..MAC_HEX_LEN : mac[i] \in LowerHexClass
    /\ \/ Len(mac) = MAC_HEX_LEN
       \/ Len(mac) = MAC_HEX_LEN + 1 /\ mac[MAC_HEX_LEN + 1] = "\n"

OUI_LEN == 6

UL_MASK == 2

IG_MASK == 1

\* a variant with the two masks exchanged
flags_of_byte_swapped(first_byte) ==
    [k \in {"U/L", "I/G"} |->
        IF k = "U/L" THEN BitAnd(first_byte, IG_MASK) # 0
                     ELSE BitAnd(first_byte, UL_MASK) # 0]

\* the flags dict built from the first byte
flags_of_byte(first_byte) ==
    [k \in {"U/L", "I/G"} |->
        IF k = "U/L" THEN BitAnd(first_byte, UL_MASK) # 0
                     ELSE BitAnd(first_byte, IG_MASK) # 0]

\* parse_mac_address(mac) returns the pair (oui, flags), or (None, None).
parse_mac_address(raw) ==
    LET mac == str_lower(re_sub_separators(raw)) IN
    IF ~ re_match_mac(mac)
    THEN [oui |-> None, flags |-> None]
    ELSE [oui |-> Take(mac, OUI_LEN), flags |-> flags_of_byte(int16(Take(mac, 2)))]

-----------------------------------------------------------------------------
(* explain_flags *)

UL_LAA == "U/L: 1 - Esta es una direccion administrada localmente (LAA)"
UL_UAA == "U/L: 0 - Esta es una direccion administrada universalmente (UAA)"
IG_GROUP == "I/G: 1 - Esta es una direccion de grupo/multicast"
IG_INDIVIDUAL == "I/G: 0 - Esta es una direccion individual/unicast"

\* a variant that appends the I/G text first
explain_flags_ig_first(f) ==
    LET ul == IF "U/L" \in DOMAIN f
              THEN (IF f["U/L"] THEN <<UL_LAA>> ELSE <<UL_UAA>>)
              ELSE <<>>
        ig == IF "I/G" \in DOMAIN f
              THEN (IF f["I/G"] THEN <<IG_GROUP>> ELSE <<IG_INDIVIDUAL>>)
              ELSE <<>>
    IN ig \o ul

explain_flags(f) ==
    LET ul == IF "U/L" \in DOMAIN f
              THEN (IF f["U/L"] THEN <<UL_LAA>> ELSE <<UL_UAA>>)
              ELSE <<>>
        ig == IF "I/G" \in DOMAIN f
              THEN (IF f["I/G"] THEN <<IG_GROUP>> ELSE <<IG_INDIVIDUAL>>)
              ELSE <<>>
    IN ul \o ig

-----------------------------------------------------------------------------
(* analyze_mac *)

ERROR_TEXT == "Formato de direccion MAC invalido"
EXAMPLE_TEXT == "Formatos validos: 00:11:22:33:44:55, 00-11-22-33-44-55, 001122334455"

\* "Fabricante desconocido"
UNKNOWN_MANUFACTURER ==
    <<"F", "a", "b", "r", "i", "c", "a", "n", "t", "e", " ",
      "d", "e", "s", "c", "o", "n", "o", "c", "i", "d", "o">>

\* a variant that joins the groups with '-'
join_oui_hyphen(oui) ==
    SubSeq(oui, 1, 2) \o <<"-">> \o SubSeq(oui, 3, 4) \o <<"-">> \o SubSeq(oui, 5, 6)

\* ':'.join([oui[i:i+2] for i in range(0, 6, 2)])
join_oui(oui) ==
    SubSeq(oui, 1, 2) \o <<":">> \o SubSeq(oui, 3, 4) \o <<":">> \o SubSeq(oui, 5, 6)

\* a variant that looks the table up with the colon-separated prefix
analyze_mac_canonical_key(raw, db) ==
    LET p == parse_mac_address(raw) IN
    IF ~ Truthy(p.oui)
    THEN [error |-> ERROR_TEXT, example |-> EXAMPLE_TEXT]
    ELSE [mac |-> raw,
          oui |-> join_oui(p.oui),
          manufacturer |-> DictGet(db, join_oui(p.oui), UNKNOWN_MANUFACTURER),
          flags |-> p.flags,
          flag_explanations |-> explain_flags(p.flags)]

\* the dict analyze_mac returns
analyze_mac(raw, db) ==
    LET p == parse_mac_address(raw) IN
    IF ~ Truthy(p.oui)
    THEN [error |-> ERROR_TEXT, example |-> EXAMPLE_TEXT]
    ELSE [mac |-> raw,
          oui |-> join_oui(p.oui),
          manufacturer |-> DictGet(db, p.oui, UNKNOWN_MANUFACTURER),
          flags |-> p.flags,
          flag_explanations |-> explain_flags(p.flags)]

\* a variant for dict.setdefault, which inserts the sentinel for a new prefix
analyze_mac_table_setdefault(raw, db) ==
    LET p == parse_mac_address(raw) IN
    IF Truthy(p.oui) /\ p.oui \notin DOMAIN db
    THEN DictSet(db, p.oui, UNKNOWN_MANUFACTURER)
    ELSE db

\* the table as analyze_mac leaves it: dict.get reads and never inserts
analyze_mac_table(raw, db) == db

-----------------------------------------------------------------------------
(* parse_oui_database *)

\* where str.splitlines() breaks a line
LineBoundaries == {"\n", "\r", "\f"}

\* str.splitlines(): "\r\n" is one boundary; no empty last line
RECURSIVE splitlines_acc(_, _)
splitlines_acc(s, cur) ==
    IF s = <<>> THEN (IF cur = <<>> THEN <<>> ELSE <<cur>>)
    ELSE IF s[1] = "\r" /\ Len(s) >= 2 /\ s[2] = "\n"
         THEN <<cur>> \o splitlines_acc(Drop(s, 2), <<>>)
    ELSE IF s[1] \in LineBoundaries
         THEN <<cur>> \o splitlines_acc(Tail(s), <<>>)
    ELSE splitlines_acc(Tail(s), Append(cur, s[1]))

splitlines(s) == splitlines_acc(s, <<>>)

\* the literal \(hex\) of the pattern
HEX_LITERAL == <<"(", "h", "e", "x", ")">>

\* length of the run of \s characters of s that starts at position q
RECURSIVE ws_run(_, _)
ws_run(s, q) ==
    IF q <= Len(s) /\ s[q] \in WhitespaceClass THEN 1 + ws_run(s, q + 1) ELSE 0

\* the pattern ([0-9A-F]{2}-[0-9A-F]{2}-[0-9A-F]{2})\s+\(hex\)\s+(.*) matches
\* at position p of line.  Each \s+ is followed by a non-space or by (.*), so
\* it takes the whole run of whitespace.
oui_match_at(line, p) ==
    LET q  == p + 8
        w1 == ws_run(line, q)
        r  == q + w1 + Len(HEX_LITERAL)
        w2 == ws_run(line, r)
    IN /\ p + 7 <= Len(line)
       /\ \A k \in {0, 1, 3, 4, 6, 7} : line[p + k] \in UpperHexClass
       /\ line[p + 2] = "-"
       /\ line[p + 5] = "-"
       /\ w1 >= 1
       /\ r - 1 <= Len(line)
       /\ SubSeq(line, q + w1, r - 1) = HEX_LITERAL
       /\ w2 >= 1

\* re.search(pattern, line): the leftmost match, with its two groups
re_search_oui(line) ==
    IF \E p \in 1..Len(line) : oui_match_at(line, p)
    THEN LET p  == CHOOSE x \in 1..Len(line) :
                       /\ oui_match_at(line, x)
                       /\ \A y \in 1..(x - 1) : ~ oui_match_at(line, y)
             q  == p + 8
             r  == q + ws_run(line, q) + Len(HEX_LITERAL)
         IN [matched |-> TRUE,
             oui |-> SubSeq(line, p, p + 7),
             manufacturer |-> Drop(line, r + ws_run(line, r) - 1)]
    ELSE [matched |-> FALSE]

\* a variant that leaves the hex digits as the registry writes them
normalize_oui_keep_case(oui) == SelectSeq(oui, LAMBDA c : c # "-")

\* oui.replace('-', '').lower()
normalize_oui(oui) == str_lower(SelectSeq(oui, LAMBDA c : c # "-"))

\* a variant of the loop in which the first line of a prefix wins
RECURSIVE parse_lines_first_wins(_, _)
parse_lines_first_wins(lines, oui_dict) ==
    IF lines = <<>> THEN oui_dict
    ELSE LET m == re_search_oui(Head(lines)) IN
         parse_lines_first_wins(Tail(lines),
             IF m.matched /\ normalize_oui(m.oui) \notin DOMAIN oui_dict
             THEN DictSet(oui_dict, normalize_oui(m.oui), strip(m.manufacturer))
             ELSE oui_dict)

\* the loop over data.splitlines()
RECURSIVE parse_lines(_, _)
parse_lines(lines, oui_dict) ==
    IF lines = <<>> THEN oui_dict
    ELSE LET m == re_search_oui(Head(lines)) IN
         parse_lines(Tail(lines),
             IF m.matched
             THEN DictSet(oui_dict, normalize_oui(m.oui), strip(m.manufacturer))
             ELSE oui_dict)

parse_oui_database(data) ==
    IF ~ Truthy(data) THEN EmptyDict ELSE parse_lines(splitlines(data), EmptyDict)

-----------------------------------------------------------------------------
(* analyze_file: the batch loop *)

\* file.readlines(): the lines of the text, each with its "\n"
RECURSIVE readlines_acc(_, _)
readlines_acc(s, cur) ==
    IF s = <<>> THEN (IF cur = <<>> THEN <<>> ELSE <<cur>>)
    ELSE IF s[1] = "\n" THEN <<Append(cur, "\n")>> \o readlines_acc(Tail(s), <<>>)
    ELSE readlines_acc(Tail(s), Append(cur, s[1]))

readlines(s) == readlines_acc(s, <<>>)

\* a variant of the loop body that stops counting a line as an error
loop_body_no_error_count(st, line, db) ==
    LET mac == strip(line) IN
    IF mac = <<>> \/ mac[1] = "#" THEN st
    ELSE LET res == analyze_mac(mac, db) IN
         [results |-> Append(st.results, res),
          success_count |-> IF "error" \in DOMAIN res THEN st.success_count
                            ELSE st.success_count + 1,
          error_count |-> st.error_count]

\* one iteration of "for mac in macs", on the loop's three locals
loop_body(st, line, db) ==
    LET mac == strip(line) IN
    IF mac = <<>> \/ mac[1] = "#" THEN st
    ELSE LET res == analyze_mac(mac, db) IN
         [results |-> Append(st.results, res),
          success_count |-> IF "error" \in DOMAIN res THEN st.success_count
                            ELSE st.success_count + 1,
          error_count |-> IF "error" \in DOMAIN res THEN st.error_count + 1
                          ELSE st.error_count]

-----------------------------------------------------------------------------
(* Inputs *)

\* sequences over S of length at most n
SeqsUpTo(S, n) == UNION {[1..k -> S] : k \in 0..n}

\* the text whose lines are ls, each ended by "\n"
RECURSIVE Text(_)
Text(ls) == IF ls = <<>> THEN <<>> ELSE Head(ls) \o <<"\n">> \o Text(Tail(ls))

\* '00-00-5E (hex) IC'
LINE_IC ==
    <<"0", "0", "-", "0", "0", "-", "5", "E", " ", "(", "h", "e", "x", ")", " ", "I", "C">>

\* '00-00-5E\t(hex)\t\tXe '
LINE_XE ==
    <<"0", "0", "-", "0", "0", "-", "5", "E", "\t", "(", "h", "e", "x", ")", "\t", "\t", "X", "e", " ">>

\* 'AC-DE-48 (hex) P\r'
LINE_CRLF ==
    <<"A", "C", "-", "D", "E", "-", "4", "8", " ", "(", "h", "e", "x", ")", " ", "P", "\r">>

\* '0a-00-5e (hex) IC'
LINE_LOWER ==
    <<"0", "a", "-", "0", "0", "-", "5", "e", " ", "(", "h", "e", "x", ")", " ", "I", "C">>

\* '00005E (base 16) IC'
LINE_B16 ==
    <<"0", "0", "0", "0", "5", "E", " ", "(", "b", "a", "s", "e", " ", "1", "6", ")", " ", "I", "C">>

\* '00-00-5E(hex) IC'
LINE_NOSPACE ==
    <<"0", "0", "-", "0", "0", "-", "5", "E", "(", "h", "e", "x", ")", " ", "I", "C">>

\* '00-00-5E (hex) '
LINE_NONAME ==
    <<"0", "0", "-", "0", "0", "-", "5", "E", " ", "(", "h", "e", "x", ")", " ">>

\* 'x00-00-5E (hex) Q'
LINE_LEAD ==
    <<"x", "0", "0", "-", "0", "0", "-", "5", "E", " ", "(", "h", "e", "x", ")", " ", "Q">>

\* 'AC-DE-48-00-00-5E (hex) R'
LINE_LONG ==
    <<"A", "C", "-", "D", "E", "-", "4", "8", "-", "0", "0", "-", "0", "0", "-", "5", "E", " ", "(", "h", "e", "x", ")", " ", "R">>

\* '0A-00-5E (hex) U'
LINE_UPPER ==
    <<"0", "A", "-", "0", "0", "-", "5", "E", " ", "(", "h", "e", "x", ")", " ", "U">>

\* '00-00-5E (hex)'
LINE_NOTAIL ==
    <<"0", "0", "-", "0", "0", "-", "5", "E", " ", "(", "h", "e", "x", ")">>

\* Registry lines: data lines, a repeated prefix, a CRLF line, lower-case hex,
\* the registry's base-16 line, a blank line, missing whitespace, an empty
\* name, text before the triplet, a six-byte run, nothing after (hex).
RegistryLines ==
    { LINE_IC, LINE_XE, LINE_CRLF, LINE_LOWER, LINE_B16, <<>>, LINE_NOSPACE,
      LINE_NONAME, LINE_LEAD, LINE_LONG, LINE_UPPER, LINE_NOTAIL }

\* how many lines a registry text of the model has at most
MaxLines == 3

\* what parse_oui_database is called with: no data, or a text
RegistryInputs == {None} \cup {Text(ls) : ls \in SeqsUpTo(RegistryLines, MaxLines)}

\* Addresses: first byte, the two other bytes of the prefix, the device bytes
FirstBytes == { <<"0", "0">>, <<"0", "2">>, <<"0", "3">>, <<"f", "f">>, <<"0", "1">>, <<"A", "6">>, <<"0", "g">> }

OuiRests == { <<<<"0", "0">>, <<"5", "E">>>>, <<<<"1", "1">>, <<"2", "2">>>> }

DeviceTails == { <<<<"3", "3">>, <<"4", "4">>, <<"5", "5">>>>,
                 <<<<"3", "3">>, <<"4", "4">>>>,
                 <<<<"3", "3">>, <<"4", "4">>, <<"5", "5">>, <<"6", "6">>>> }

Styles == {"none", "colon", "hyphen", "cisco", "mixed", "space"}

\* what a style writes before the address
StyleLead(style) == IF style = "mixed" THEN <<"-">> ELSE <<>>

\* what a style writes after the i-th byte, before the next
StyleGap(style, i) ==
    CASE style = "none"   -> <<>>
      [] style = "colon"  -> <<":">>
      [] style = "hyphen" -> <<"-">>
      [] style = "cisco"  -> IF i % 2 = 0 THEN <<".">> ELSE <<>>
      [] style = "mixed"  -> IF i = 1 THEN <<":", ":">>
                             ELSE IF i = 3 THEN <<"-", ".">> ELSE <<>>
      [] style = "space"  -> <<" ">>

RECURSIVE JoinBytes(_, _, _)
JoinBytes(bytes, style, i) ==
    IF i > Len(bytes) THEN <<>>
    ELSE bytes[i] \o (IF i < Len(bytes) THEN StyleGap(style, i) ELSE <<>>)
         \o JoinBytes(bytes, style, i + 1)

BuildMac(bytes, style, suffix) == StyleLead(style) \o JoinBytes(bytes, style, 1) \o suffix

Suffixes == { <<>>, <<"\n">>, <<" ">>, <<"\n", "\n">> }

\* what analyze_mac and parse_mac_address are called with
MacInputs ==
    { BuildMac(<<b>> \o o \o d, st, sf) :
        b \in FirstBytes, o \in OuiRests, d \in DeviceTails, st \in Styles, sf \in Suffixes }

KEY_IC == <<"0", "0", "0", "0", "5", "e">>
KEY_BC == <<"f", "f", "1", "1", "2", "2">>
KEY_A6 == <<"a", "6", "0", "0", "5", "e">>
NAME_IC == <<"I", "C">>
NAME_XE == <<"X", "e">>
NAME_BC == <<"B", "c">>

\* prefix tables the callers of analyze_mac hold
Tables ==
    { EmptyDict,
      [k \in {KEY_IC} |-> NAME_IC],
      [k \in {KEY_IC, KEY_BC} |-> IF k = KEY_IC THEN NAME_XE ELSE NAME_BC],
      [k \in {KEY_A6, KEY_BC} |-> IF k = KEY_A6 THEN NAME_IC ELSE UNKNOWN_MANUFACTURER] }

\* the dicts parse_mac_address builds
FlagsValues == [{"U/L", "I/G"} -> BOOLEAN]

\* what download_oui_database returns in main: None, or the text
MainRegistries ==
    { None, <<>>, Text(<<LINE_IC, LINE_CRLF>>), Text(<<LINE_XE, LINE_UPPER, LINE_LOWER>>) }

\* what input() returns for the address: a line without its newline
ConsoleInputs ==
    { BuildMac(<<<<"0", "0">>, <<"0", "0">>, <<"5", "E">>, <<"3", "3">>, <<"4", "4">>, <<"5", "5">>>>, "colon", <<>>),
      BuildMac(<<<<"f", "f">>, <<"1", "1">>, <<"2", "2">>, <<"3", "3">>, <<"4", "4">>, <<"5", "5">>>>, "hyphen", <<>>),
      BuildMac(<<<<"0", "0">>, <<"0", "0">>, <<"5", "E">>, <<"3", "3">>, <<"4", "4">>>>, "colon", <<>>),
      BuildMac(<<<<"0", "2">>, <<"0", "0">>, <<"5", "E">>, <<"3", "3">>, <<"4", "4">>, <<"5", "5">>>>, "none", <<" ">>),
      <<>> }

\* lines of a batch file, without the newline: a known prefix, a padded
\* address, an unknown prefix, a short address, a comment, a blank line
FileLinePool ==
    { <<"0", "0", ":", "0", "0", ":", "5", "E", ":", "3", "3", ":", "4", "4", ":", "5", "5">>,
      <<" ", "A", "C", "-", "D", "E", "-", "4", "8", "-", "3", "3", "-", "4", "4", "-", "5", "5", "\t">>,
      <<"f", "f", "1", "1", "2", "2", "3", "3", "4", "4", "5", "5">>,
      <<"0", "0", ":", "0", "0", ":", "5", "E", ":", "3", "3", ":", "4", "4">>,
      <<" ", "#", "0", "0", "0", "0", "5", "E", "3", "3", "4", "4", "5", "5">>,
      <<>> }

\* how many lines a batch file of the model has at most
MaxFileLines == 3

\* the files: every line ended by "\n", or the last line without it
FileTexts ==
    LET full == {Text(ls) : ls \in SeqsUpTo(FileLinePool, MaxFileLines)}
    IN full \cup {SubSeq(t, 1, Len(t) - 1) : t \in full \ {<<>>}}

-----------------------------------------------------------------------------
(* The callers *)

\* a local that holds no value yet
Unset == [unset |-> TRUE]

LoopUnchanged == UNCHANGED <<macs, idx, results, success_count, error_count>>

(* A caller of parse_oui_database: one call, on any of the inputs *)

InitRegistry ==
    /\ pc = "idle"
    /\ oui_data = None
    /\ oui_database = EmptyDict
    /\ mac_address = <<>>
    /\ result = Unset
    /\ flags = Unset
    /\ explanations = <<>>
    /\ macs = <<>>
    /\ idx = 0
    /\ results = <<>>
    /\ success_count = 0
    /\ error_count = 0

CallParseOuiDatabase ==
    \E data \in RegistryInputs :
        /\ pc = "idle"
        /\ oui_data' = data
        /\ oui_database' = parse_oui_database(data)
        /\ pc' = "parsed"
        /\ UNCHANGED <<mac_address, result, flags, explanations>>
        /\ LoopUnchanged

NextRegistry == CallParseOuiDatabase

SpecRegistry == InitRegistry /\ [][NextRegistry]_vars

(* A caller that holds a table and makes one call of parse_mac_address,
   analyze_mac or explain_flags, on any of the inputs *)

InitAnalyze ==
    /\ pc = "idle"
    /\ oui_data = None
    /\ oui_database \in Tables
    /\ mac_address = <<>>
    /\ result = Unset
    /\ flags = Unset
    /\ explanations = <<>>
    /\ macs = <<>>
    /\ idx = 0
    /\ results = <<>>
    /\ success_count = 0
    /\ error_count = 0

CallParseMacAddress ==
    \E raw \in MacInputs :
        /\ pc = "idle"
        /\ mac_address' = raw
        /\ result' = parse_mac_address(raw)
        /\ pc' = "parsed_mac"
        /\ UNCHANGED <<oui_data, oui_database, flags, explanations>>
        /\ LoopUnchanged

CallAnalyzeMac ==
    \E raw \in MacInputs :
        /\ pc = "idle"
        /\ mac_address' = raw
        /\ result' = analyze_mac(raw, oui_database)
        /\ oui_database' = analyze_mac_table(raw, oui_database)
        /\ pc' = "analyzed"
        /\ UNCHANGED <<oui_data, flags, explanations>>
        /\ LoopUnchanged

CallExplainFlags ==
    \E f \in FlagsValues :
        /\ pc = "idle"
        /\ flags' = f
        /\ explanations' = explain_flags(f)
        /\ pc' = "explained"
        /\ UNCHANGED <<oui_data, oui_database, mac_address, result>>
        /\ LoopUnchanged

NextAnalyze == CallParseMacAddress \/ CallAnalyzeMac \/ CallExplainFlags

SpecAnalyze == InitAnalyze /\ [][NextAnalyze]_vars

(* main *)

Init ==
    /\ pc = "download"
    /\ oui_data = None
    /\ oui_database = EmptyDict
    /\ mac_address = <<>>
    /\ result = Unset
    /\ flags = Unset
    /\ explanations = <<>>
    /\ macs = <<>>
    /\ idx = 0
    /\ results = <<>>
    /\ success_count = 0
    /\ error_count = 0

\* oui_data = download_oui_database(); if not oui_data: return
Download ==
    /\ pc = "download"
    /\ \E data \in MainRegistries :
        /\ oui_data' = data
        /\ pc' = IF Truthy(data) THEN "parse" ELSE "exit"
    /\ UNCHANGED <<oui_database, mac_address, result, flags, explanations>>
    /\ LoopUnchanged

\* oui_database = parse_oui_database(oui_data); show_flags_explanation()
LoadDatabase ==
    /\ pc = "parse"
    /\ oui_database' = parse_oui_database(oui_data)
    /\ pc' = "menu"
    /\ UNCHANGED <<oui_data, mac_address, result, flags, explanations>>
    /\ LoopUnchanged

\* option 's'
MenuQuit ==
    /\ pc = "menu"
    /\ pc' = "exit"
    /\ UNCHANGED <<oui_data, oui_database, mac_address, result, flags, explanations>>
    /\ LoopUnchanged

\* option '1': analyze_mac on the address typed, then display_result
MenuAnalyzeOne ==
    /\ pc = "menu"
    /\ \E raw \in ConsoleInputs :
        /\ mac_address' = raw
        /\ result' = analyze_mac(raw, oui_database)
        /\ oui_database' = analyze_mac_table(raw, oui_database)
    /\ pc' = "pause"
    /\ UNCHANGED <<oui_data, flags, explanations>>
    /\ LoopUnchanged

\* option '2': analyze_file opens the file and reads its lines
MenuOpenFile ==
    /\ pc = "menu"
    /\ \E text \in FileTexts : macs' = readlines(text)
    /\ idx' = 0
    /\ results' = <<>>
    /\ success_count' = 0
    /\ error_count' = 0
    /\ pc' = "loop"
    /\ UNCHANGED <<oui_data, oui_database, mac_address, result, flags, explanations>>

\* option '2': open() raises, analyze_file prints the error and returns
MenuOpenFileFails ==
    /\ pc = "menu"
    /\ pc' = "pause"
    /\ UNCHANGED <<oui_data, oui_database, mac_address, result, flags, explanations>>
    /\ LoopUnchanged

\* one iteration of the loop of analyze_file
FileLoopStep ==
    /\ pc = "loop"
    /\ idx < Len(macs)
    /\ LET st == loop_body([results |-> results, success_count |-> success_count,
                            error_count |-> error_count], macs[idx + 1], oui_database)
       IN /\ results' = st.results
          /\ success_count' = st.success_count
          /\ error_count' = st.error_count
    /\ oui_database' = analyze_mac_table(strip(macs[idx + 1]), oui_database)
    /\ idx' = idx + 1
    /\ UNCHANGED <<pc, oui_data, mac_address, result, flags, explanations, macs>>

\* the loop is over: the counts are printed
FileLoopEnd ==
    /\ pc = "loop"
    /\ idx = Len(macs)
    /\ pc' = "report"
    /\ UNCHANGED <<oui_data, oui_database, mac_address, result, flags, explanations>>
    /\ LoopUnchanged

\* the results are shown and saved as asked, and analyze_file returns
FileReport ==
    /\ pc = "report"
    /\ pc' = "pause"
    /\ macs' = <<>>
    /\ idx' = 0
    /\ results' = <<>>
    /\ success_count' = 0
    /\ error_count' = 0
    /\ UNCHANGED <<oui_data, oui_database, mac_address, result, flags, explanations>>

\* option '3' (show_flags_explanation) and any other option
MenuOther ==
    /\ pc = "menu"
    /\ pc' = "pause"
    /\ UNCHANGED <<oui_data, oui_database, mac_address, result, flags, explanations>>
    /\ LoopUnchanged

\* "Presiona Enter para continuar..."
Continue ==
    /\ pc = "pause"
    /\ pc' = "menu"
    /\ UNCHANGED <<oui_data, oui_database, mac_address, result, flags, explanations>>
    /\ LoopUnchanged

Next ==
    \/ Download
    \/ LoadDatabase
    \/ MenuQuit
    \/ MenuAnalyzeOne
    \/ MenuOpenFile
    \/ MenuOpenFileFails
    \/ FileLoopStep
    \/ FileLoopEnd
    \/ FileReport
    \/ MenuOther
    \/ Continue

Spec == Init /\ [][Next]_vars

-----------------------------------------------------------------------------
(* The properties *)

\* an address with every '.', ':' and '-' removed and the letters lower-cased
RECURSIVE Normalized(_)
Normalized(raw) ==
    IF raw = <<>> THEN <<>>
    ELSE IF Head(raw) \in {".", ":", "-"} THEN Normalized(Tail(raw))
    ELSE <<lower_char(Head(raw))>> \o Normalized(Tail(raw))

NormalizedOf == [raw \in MacInputs |-> Normalized(raw)]

\* exactly 12 characters, all in 0-9a-f
TwelveHex(n) == Len(n) = 12 /\ \A i \in 1..12 : n[i] \in LowerHexClass

SuccessFields == {"mac", "oui", "manufacturer", "flags", "flag_explanations"}

IsSuccess(r) == DOMAIN r = SuccessFields

IsError(r) == r = [error |-> ERROR_TEXT, example |-> EXAMPLE_TEXT]

\* C1: analyze_mac returns the success variant exactly when the input, with the
\* separators removed and lower-cased, is 12 characters of 0-9a-f; for every
\* other input (whitespace at the end included) it returns the error variant,
\* which holds the error text and the example hint and no success field.
C1_SuccessIffTwelveHex ==
    pc = "analyzed" =>
        IF TwelveHex(Normalized(mac_address))
        THEN IsSuccess(result)
        ELSE IsError(result)

\* value of the first two characters of a normalized address
FirstByte(n) == 16 * hex_digit(n[1]) + hex_digit(n[2])

\* C2: for a valid address the flags are U/L = bit 0x02 and I/G = bit 0x01 of
\* the byte written by the first two normalized characters, and of nothing
\* else: 0x02 gives (true, false), 0x03 (true, true), 0x00 (false, false) and
\* 0xff (true, true).
C2_FlagsAreBitsOfFirstByte ==
    pc = "parsed_mac" /\ TwelveHex(Normalized(mac_address)) =>
        LET byte == FirstByte(Normalized(mac_address)) IN
        /\ DOMAIN result.flags = {"U/L", "I/G"}
        /\ result.flags["U/L"] = ((byte \div 2) % 2 = 1)
        /\ result.flags["I/G"] = (byte % 2 = 1)
        /\ byte = 2 => result.flags["U/L"] /\ ~ result.flags["I/G"]
        /\ byte = 3 => result.flags["U/L"] /\ result.flags["I/G"]
        /\ byte = 0 => ~ result.flags["U/L"] /\ ~ result.flags["I/G"]
        /\ byte = 255 => result.flags["U/L"] /\ result.flags["I/G"]

\* a valid address whose first byte, 0xa6, has bits set above the two flags
C2_Witness ==
    /\ pc = "parsed_mac"
    /\ TwelveHex(Normalized(mac_address))
    /\ FirstByte(Normalized(mac_address)) = 166
    /\ result.flags["U/L"]
    /\ ~ result.flags["I/G"]

\* C3: two inputs that become the same 12 hex digits once the separators are
\* removed and the letters lower-cased give the same 6-character lower-case
\* prefix and the same flags, wherever and however many the separators are.
C3_SeparatorAndCaseInsensitive ==
    pc = "parsed_mac" /\ TwelveHex(Normalized(mac_address)) =>
        /\ result.oui = SubSeq(Normalized(mac_address), 1, 6)
        /\ \A other \in MacInputs :
              NormalizedOf[other] = Normalized(mac_address) =>
                  parse_mac_address(other) = result

\* an address written with dots and an upper-case letter, which another
\* spelling of the same digits matches
C3_Witness ==
    /\ pc = "parsed_mac"
    /\ TwelveHex(Normalized(mac_address))
    /\ \E i \in DOMAIN mac_address : mac_address[i] = "."
    /\ \E i \in DOMAIN mac_address : mac_address[i] = "E"
    /\ \E other \in MacInputs :
          /\ other # mac_address
          /\ NormalizedOf[other] = Normalized(mac_address)
          /\ \E i \in DOMAIN other : other[i] = ":"

\* C4: for a valid address the result is a success whose manufacturer is the
\* table's value for the 6-character prefix when the prefix is a key, and the
\* sentinel when it is not.
C4_ManufacturerOrSentinel ==
    pc = "analyzed" /\ TwelveHex(Normalized(mac_address)) =>
        LET prefix == SubSeq(Normalized(mac_address), 1, 6) IN
        /\ IsSuccess(result)
        /\ prefix \in DOMAIN oui_database => result.manufacturer = oui_database[prefix]
        /\ prefix \notin DOMAIN oui_database => result.manufacturer = UNKNOWN_MANUFACTURER

\* a known prefix in a table that also holds another prefix
C4_Witness ==
    /\ pc = "analyzed"
    /\ TwelveHex(Normalized(mac_address))
    /\ SubSeq(Normalized(mac_address), 1, 6) = KEY_IC
    /\ KEY_BC \in DOMAIN oui_database
    /\ result.manufacturer = NAME_XE

\* the hex digits of either case
AnyHexClass == LowerHexClass \cup UpperHexClass

AllWhitespace(line, from, to) == \A i \in from..to : line[i] \in WhitespaceClass

\* the places p of line where the registry pattern starts: two hex digits of
\* class cls, hyphen, two hex digits, hyphen, two hex digits, whitespace, the
\* literal (hex), whitespace, the rest of the line
PatternStarts(line, cls) ==
    { p \in 1..Len(line) :
        /\ p + 7 <= Len(line)
        /\ \A k \in {0, 1, 3, 4, 6, 7} : line[p + k] \in cls
        /\ line[p + 2] = "-" /\ line[p + 5] = "-"
        /\ \E w1 \in 1..Len(line) :
              /\ p + 12 + w1 <= Len(line)
              /\ AllWhitespace(line, p + 8, p + 7 + w1)
              /\ SubSeq(line, p + 8 + w1, p + 12 + w1) = <<"(", "h", "e", "x", ")">>
              /\ p + 13 + w1 <= Len(line)
              /\ line[p + 13 + w1] \in WhitespaceClass }

\* the first place where the pattern starts
FirstStart(line, cls) ==
    CHOOSE p \in PatternStarts(line, cls) : \A q \in PatternStarts(line, cls) : p <= q

\* the triplet there, hyphens stripped and lower-cased
EntryKey(line, cls) ==
    LET p == FirstStart(line, cls) IN
    <<lower_char(line[p]), lower_char(line[p + 1]), lower_char(line[p + 3]),
      lower_char(line[p + 4]), lower_char(line[p + 6]), lower_char(line[p + 7])>>

\* the rest of the line after the literal (hex), trimmed
EntryName(line, cls) ==
    LET p    == FirstStart(line, cls)
        lit  == CHOOSE i \in p + 9..Len(line) :
                    /\ line[i] = "("
                    /\ AllWhitespace(line, p + 8, i - 1)
    IN strip(SubSeq(line, lit + 5, Len(line)))

\* the table the claim describes: for each triplet, the name of the last line
\* that matches the pattern with that triplet
ExpectedTable(data, cls) ==
    LET lines == IF Truthy(data) THEN splitlines(data) ELSE <<>>
        hits  == {i \in DOMAIN lines : PatternStarts(lines[i], cls) # {}}
        keys  == {EntryKey(lines[i], cls) : i \in hits}
        last(k) == CHOOSE i \in hits :
                       /\ EntryKey(lines[i], cls) = k
                       /\ \A j \in hits : EntryKey(lines[j], cls) = k => j <= i
    IN [k \in keys |-> EntryName(lines[last(k)], cls)]

\* C5, as stated: the table maps the triplet of each line that matches the
\* pattern, with hex digits of either case, to the trimmed rest of the last
\* such line; the other lines add nothing.
C5_LastMatchingLineWins ==
    pc = "parsed" => oui_database = ExpectedTable(oui_data, AnyHexClass)

\* C5, amended: the same with the triplet's hex digits in 0-9A-F only; a line
\* whose triplet holds a lower-case letter adds nothing.
C5_LastUpperCaseLineWins ==
    pc = "parsed" => oui_database = ExpectedTable(oui_data, UpperHexClass)

\* a prefix given twice with a line that does not match in between: the later
\* name is the table's
C5_Witness ==
    /\ pc = "parsed"
    /\ oui_data = Text(<<LINE_IC, LINE_B16, LINE_XE>>)
    /\ oui_database = [k \in {KEY_IC} |-> NAME_XE]

\* C6: every key of the table parse_oui_database returns is 6 characters of
\* 0-9a-f, and empty or absent input gives the empty table.
C6_KeysSixLowerHex ==
    pc = "parsed" =>
        /\ \A k \in DOMAIN oui_database :
              Len(k) = 6 /\ \A i \in 1..6 : k[i] \in LowerHexClass
        /\ oui_data \in {None, <<>>} => oui_database = EmptyDict

\* a table of two keys, one of them written with upper-case letters in the text
C6_Witness ==
    /\ pc = "parsed"
    /\ Cardinality(DOMAIN oui_database) = 2
    /\ <<"a", "c", "d", "e", "4", "8">> \in DOMAIN oui_database

\* C7: explain_flags returns two entries, the U/L text and then the I/G text:
\* LAA when U/L is true and UAA when false, group/multicast when I/G is true
\* and individual/unicast when false.
C7_TwoExplanationsInOrder ==
    /\ pc = "explained" =>
          explanations = << IF flags["U/L"] THEN UL_LAA ELSE UL_UAA,
                            IF flags["I/G"] THEN IG_GROUP ELSE IG_INDIVIDUAL >>
    /\ pc = "analyzed" /\ IsSuccess(result) =>
          result.flag_explanations =
              << IF result.flags["U/L"] THEN UL_LAA ELSE UL_UAA,
                 IF result.flags["I/G"] THEN IG_GROUP ELSE IG_INDIVIDUAL >>

\* the flags of a locally administered unicast address, explained
C7_Witness ==
    /\ pc = "explained"
    /\ flags["U/L"]
    /\ ~ flags["I/G"]
    /\ explanations = <<UL_LAA, IG_INDIVIDUAL>>

\* C8: in a success result 'oui' is the prefix in three groups of two joined
\* by ':' (8 characters), and with the ':' stripped and lower-cased it is the
\* prefix the table was looked up with.
C8_CanonicalPrefixRoundTrip ==
    pc = "analyzed" /\ IsSuccess(result) =>
        LET stripped == str_lower(SelectSeq(result.oui, LAMBDA c : c # ":")) IN
        /\ Len(result.oui) = 8
        /\ \A i \in 1..8 : (result.oui[i] = ":") = (i \in {3, 6})
        /\ stripped = parse_mac_address(mac_address).oui
        /\ stripped = SubSeq(Normalized(mac_address), 1, 6)
        /\ result.manufacturer = DictGet(oui_database, stripped, UNKNOWN_MANUFACTURER)

\* the canonical prefix of an address written in upper case with hyphens
C8_Witness ==
    /\ pc = "analyzed"
    /\ IsSuccess(result)
    /\ \E i \in DOMAIN mac_address : mac_address[i] = "A"
    /\ \E i \in DOMAIN mac_address : mac_address[i] = "-"
    /\ result.oui = <<"a", "6", ":", "0", "0", ":", "5", "e">>

\* C9: after the table is loaded, whatever the menu operations, the table is
\* the one parse_oui_database returned for the registry text at start-up.
C9_TableNeverChanges ==
    pc \in {"menu", "pause", "loop", "report"} \/ (pc = "exit" /\ Truthy(oui_data)) =>
        oui_database = parse_oui_database(oui_data)

\* a batch with an error and an unknown prefix, after a single analysis of an
\* unknown prefix, against a table that is not empty
C9_Witness ==
    /\ pc = "report"
    /\ oui_database # EmptyDict
    /\ result # Unset
    /\ IsSuccess(result)
    /\ result.manufacturer = UNKNOWN_MANUFACTURER
    /\ \E i \in DOMAIN results : IsError(results[i])
    /\ \E i \in DOMAIN results :
          IsSuccess(results[i]) /\ results[i].manufacturer = UNKNOWN_MANUFACTURER

\* a line that the batch loop analyses: not empty and no comment, once trimmed
Analysed(line) == strip(line) # <<>> /\ strip(line)[1] # "#"

\* the results of the first n lines, in file order
RECURSIVE ResultsOfLines(_)
ResultsOfLines(n) ==
    IF n = 0 THEN <<>>
    ELSE IF Analysed(macs[n])
         THEN Append(ResultsOfLines(n - 1), analyze_mac(strip(macs[n]), oui_database))
         ELSE ResultsOfLines(n - 1)

\* C10: in the batch loop, after any number of lines, success_count +
\* error_count is the number of results, which is the number of lines so far
\* that are neither empty nor comments; the results are in file order,
\* error_count counts the error results, and the loop ends only when every
\* line has been processed.
C10_BatchCounts ==
    pc \in {"loop", "report"} =>
        /\ idx \in 0..Len(macs)
        /\ success_count + error_count = Len(results)
        /\ Len(results) = Cardinality({i \in 1..idx : Analysed(macs[i])})
        /\ results = ResultsOfLines(idx)
        /\ error_count = Cardinality({k \in DOMAIN results : "error" \in DOMAIN results[k]})
        /\ pc = "report" => idx = Len(macs)

\* an invalid line counted, a comment skipped, and a later line still analysed
C10_Witness ==
    /\ pc = "loop"
    /\ idx = 3
    /\ Len(results) = 2
    /\ IsError(results[1])
    /\ IsSuccess(results[2])
    /\ ~ Analysed(macs[2])
    /\ error_count = 1
    /\ success_count = 1

====
